---- MODULE Spec2Model ----
(***************************************************************************)
(* The per-call session bridge between a Twilio Media Stream (the Media    *)
(* Channel, "connection") and the OpenAI Realtime socket (the Speech       *)
(* Service, "openAiWs").  The repository holds several variants of the     *)
(* /media-stream handler; these are modelled here:                         *)
(*   "auto"   src/index.js 477-822 (the same code again at 1364-1733):     *)
(*            automatic responses, greeting rendezvous, initial-audio      *)
(*            pacing, speech-started only logged;                          *)
(*   "manual" src/index.js 893-1155: create_response off, the bridge       *)
(*            requests responses itself, barge-in truncates;               *)
(*   "greet"  src/unnamed/part_001 64-334: automatic responses, greeting   *)
(*            sent on session.updated, barge-in truncates.                 *)
(* A fourth, "debounce" (src/unnamed/part_002 83-263), requests a response *)
(* at speech_stopped and after 900 ms without media; its handlers are the  *)
(* actions named Db..., SpeechStopped and SilenceTimer.  A fifth, "vad"    *)
(* (src/unnamed/part_000 73-285), relays audio at once, truncates on       *)
(* barge-in and requests a response at speech_stopped (VadStart,           *)
(* VadSpeechStopped; its other handlers are those of the variants above).  *)
(* One action models one event handler or timer callback, whole.           *)
(***************************************************************************)
EXTENDS Integers, Sequences, FiniteSets, TLC

\* ------------------------------------------------------------------ bounds
\* Audio deltas delivered on one Speech Service connection: to the pacing
\* variant, which buffers INITIAL_CHUNKS_BEFORE_FLUSH of them, and to the others.
MaxDeltas == 7
MaxBargeDeltas == 2
\* Timers of one kind pending at once.
MaxTimers == 2
\* response-create commands counted after a pair of commits.
MaxCreates == 2

\* ------------------------------------------------------- program constants
INITIAL_CHUNKS_BEFORE_FLUSH == 6

\* null for streamSid, lastAssistantItem, lastCommittedItemId, ...
NULL == "null"
\* null for responseStartTimestampTwilio (timestamps are numbers >= 0)
NoAnchor == -1

\* ------------------------------------------------------------------ inputs
StreamSids == {"MZ1", "MZ2"}
\* what data.start.streamSid evaluates to: an id, or nothing (NULL) when the
\* start object carries none
StartSids == StreamSids \cup {NULL}
\* the item_id of an audio delta: absent, or the assistant's item
DeltaItemIds == {NULL, "X"}
\* the item_id of input_audio_buffer.committed
CommitItemIds == {"a"}
\* media.timestamp values, delivered in any order
Timestamps == {4200, 5000}
\* media.payload values (base64 audio) of inbound frames
Payloads == {"p", "q"}
\* the inbound media frames followed: a timestamp and a payload each
MediaFrames == {<<4200, "p">>, <<5000, "q">>}

VARIABLES
  variant,                      \* which /media-stream handler runs
  streamSid,
  latestMediaTimestamp,
  lastAssistantItem,
  markQueue,
  responseStartTimestampTwilio,
  aiResponseInProgress,
  pendingAudioChunks,
  hasFlushedInitialAudio,
  callReady,
  openAiSessionReady,
  greetingSent,                 \* hasSentInitialGreeting in part_001
  lastCommittedItemId,
  pendingResponseForItemId,
  wsState,                      \* openAiWs.readyState
  connState,                    \* connection.readyState, once accepted
  settleTimers,                 \* pending setTimeout(initializeSession, 100)
  greetingTimers,               \* pending greeting setTimeout(..., 500)
  commitTimers,                 \* pending commit-fallback setTimeout(..., 250)
  silenceTimers,                \* pending silence setTimeout(..., 900) (part_002)
  out,                          \* what the last step put on the two sockets
  hist,                         \* counters over the run (observation only)
  peer                          \* the variables of the other connection's
                                \* handler when two calls are followed

session == <<streamSid, latestMediaTimestamp, lastAssistantItem, markQueue,
             responseStartTimestampTwilio, aiResponseInProgress,
             pendingAudioChunks, hasFlushedInitialAudio, callReady,
             openAiSessionReady, greetingSent, lastCommittedItemId,
             pendingResponseForItemId>>

sockets == <<wsState, connState>>

\* The media connection is OPEN: its messages are received and
\* connection.send transmits.  A close frame from the far end makes it
\* CLOSING, with no handler called; the close handler runs at CLOSED.
connOpen == connState = "OPEN"

\* The media connection has closed: its close handler has run.
connClosed == connState = "CLOSED"

timers == <<settleTimers, greetingTimers, commitTimers, silenceTimers>>

vars == <<variant, session, sockets, timers, out, hist, peer>>

\* ------------------------------------------------------------- wire format
\* One message put on a socket: to "SS" (openAiWs.send) or "MC"
\* (connection.send), or an error written to the log ("LOG"), its type,
\* the id it carries (item id or streamSid) and a number (audio_end_ms, or the chunk an outbound media frame carries).
Msg(to, type, id, n) == [to |-> to, type |-> type, id |-> id, n |-> n]

\* openAiWs.send: ws transmits only on an OPEN socket; on a CLOSING or
\* CLOSED one the data is discarded.
SsSend(state, msgs) == IF state = "OPEN" THEN msgs ELSE <<>>

\* connection.send: likewise for the media connection.
McSend(open, msgs) == IF open THEN msgs ELSE <<>>

\* JavaScript truthiness of responseStartTimestampTwilio: null and 0 are falsy.
AnchorFalsy(a) == a = NoAnchor \/ a = 0

Count(type, msgs) == Cardinality({i \in 1..Len(msgs) : msgs[i].type = type})

Min(a, b) == IF a < b THEN a ELSE b

\* --------------------------------------------------------------- observers
\* response.create commands among msgs; the greeting carries id "greeting",
\* a turn response requested by tryCreateResponse carries id "turn".
Creates(msgs) == Count("response.create", msgs)

Greetings(msgs) ==
  Cardinality({i \in 1..Len(msgs) :
                 msgs[i].type = "response.create" /\ msgs[i].id = "greeting"})

\* hist, the observations a step adds to the run so far:
\*   deltas    audio deltas received (the next chunk's number)
\*   audio     an audio delta has been relayed since the last
\*             response.created or response.done (followed in "manual" and
\*             "greet")
\*   asked     a session.update command has been sent
\*   greeted   a greeting response-create command has been sent
\*   acked     session.updated has been received (followed in "greet")
\*   awaiting  a response has been requested and no response.done came since
\*   win       input-committed events since the last response.done,
\*             interruption or start: 0, 1, 2 (the second came while the
\*             first's fallback timer was pending), 3 (more)
\*   wCreates  response-create commands sent since the first of them
\*   wBusy     a response was in progress at the first of them, or
\*             response.created came before any command was sent
\*   rx        audio deltas received since the last response.created
\*             (followed in "auto")
\*   done      response.done has been received since the last
\*             response.created (followed in "auto")
\*   flushed   flushPendingAudio has emptied a non-empty buffer since the
\*             last response.created
\*   cut       an interruption has taken effect and no response.created
\*             came since (followed in "vad")
\* The state after a step that sent msgs:
Observe(h, msgs) ==
  [h EXCEPT !.asked = h.asked \/ Count("session.update", msgs) > 0,
            !.greeted = h.greeted \/ Greetings(msgs) > 0,
            !.awaiting = h.awaiting \/ (variant = "manual" /\ Creates(msgs) > 0),
            !.wCreates = IF h.win # 0
                           THEN Min(MaxCreates, h.wCreates + Creates(msgs))
                           ELSE h.wCreates]

\* the chunks msgs carry as media frames, in the order sent
SentChunks(msgs) ==
  LET frames == SelectSeq(msgs, LAMBDA m : m.type = "media")
  IN [i \in 1..Len(frames) |-> frames[i].n]

\* response.done, an interruption that took effect, or start: the commits
\* before it are no longer followed.
EndWindow(h) == [h EXCEPT !.win = 0, !.wCreates = 0, !.wBusy = FALSE]

\* -------------------------------------------------------------------- Init
\* The variables a call of the /media-stream handler declares, as they are
\* when the connection has just been accepted; name tells the two calls
\* apart.
FreshSession(name) ==
  [name |-> name,
   streamSid |-> NULL, latestMediaTimestamp |-> 0, lastAssistantItem |-> NULL,
   markQueue |-> <<>>, responseStartTimestampTwilio |-> NoAnchor,
   aiResponseInProgress |-> FALSE, pendingAudioChunks |-> <<>>,
   hasFlushedInitialAudio |-> FALSE, callReady |-> FALSE,
   openAiSessionReady |-> FALSE, greetingSent |-> FALSE,
   lastCommittedItemId |-> NULL, pendingResponseForItemId |-> NULL,
   wsState |-> "CONNECTING", connState |-> "OPEN",
   settleTimers |-> 0, greetingTimers |-> 0, commitTimers |-> 0,
   silenceTimers |-> 0, out |-> <<>>,
   hist |-> [deltas |-> 0, audio |-> FALSE, asked |-> FALSE, greeted |-> FALSE,
             acked |-> FALSE,
             awaiting |-> FALSE, win |-> 0, wCreates |-> 0, wBusy |-> FALSE,
             rx |-> 0, done |-> FALSE, flushed |-> FALSE, cut |-> FALSE]]

Variants == {"auto", "manual", "greet", "debounce", "vad"}

InitOf(v) ==
  /\ variant = v
  /\ streamSid = NULL
  /\ latestMediaTimestamp = 0
  /\ lastAssistantItem = NULL
  /\ markQueue = <<>>
  /\ responseStartTimestampTwilio = NoAnchor
  /\ aiResponseInProgress = FALSE
  /\ pendingAudioChunks = <<>>
  /\ hasFlushedInitialAudio = FALSE
  /\ callReady = FALSE
  /\ openAiSessionReady = FALSE
  /\ greetingSent = FALSE
  /\ lastCommittedItemId = NULL
  /\ pendingResponseForItemId = NULL
  /\ wsState = "CONNECTING"
  /\ connState = "OPEN"
  /\ settleTimers = 0
  /\ greetingTimers = 0
  /\ commitTimers = 0
  /\ silenceTimers = 0
  /\ out = <<>>
  /\ hist = FreshSession(1).hist
  /\ peer = FreshSession(2)

\* ---------------------------------------------------- shared helper code
\* maybeSendGreeting's guard: the greeting is due.
GreetingDue(sent, ready, configured, state) ==
  ~sent /\ ready /\ configured /\ state = "OPEN"

\* A sendMark that sends nothing.
NoMarkMsgs(sid) == <<>>

\* sendMark: the mark event, when streamSid is set.
MarkMsgs(sid) == IF sid = NULL THEN <<>> ELSE <<Msg("MC", "mark", sid, 0)>>

\* what sendMark appends to markQueue
MarkTokens(sid) == IF sid = NULL THEN <<>> ELSE <<"responsePart">>

\* One media frame followed by sendMark(), for each chunk, in order.
RECURSIVE FrameMsgs(_, _)
FrameMsgs(sid, chunks) ==
  IF chunks = <<>> THEN <<>>
  ELSE <<Msg("MC", "media", sid, Head(chunks))>> \o MarkMsgs(sid)
         \o FrameMsgs(sid, Tail(chunks))

RECURSIVE FrameTokens(_, _)
FrameTokens(sid, chunks) ==
  IF chunks = <<>> THEN <<>>
  ELSE MarkTokens(sid) \o FrameTokens(sid, Tail(chunks))

\* A flush that sends the newest chunk first.
NewestFirst(chunks) == [i \in 1..Len(chunks) |-> chunks[Len(chunks) + 1 - i]]

\* for (const payload of pendingAudioChunks): the order in which a flush
\* sends the buffer.
FlushOrder(chunks) == chunks

\* A flush that leaves the chunks it sent in the buffer.
BufferKept(chunks) == chunks

\* flushPendingAudio: pendingAudioChunks = [] once the chunks are sent.
BufferAfterFlush(chunks) == <<>>

\* A pacer that flushes only a full buffer.
FlushOnlyWhenFull(sid, chunks) ==
  sid # NULL /\ Len(chunks) >= INITIAL_CHUNKS_BEFORE_FLUSH

\* flushPendingAudio does something: streamSid set and chunks buffered.
FlushActs(sid, chunks) == sid # NULL /\ chunks # <<>>

\* ------------------------------------------- Media Channel event handlers
\* A media case that hands the frame over whatever the socket's state.
AppendUnguarded(state, payload) ==
  <<Msg("SS", "input_audio_buffer.append", payload, 0)>>

\* if (openAiWs.readyState === WebSocket.OPEN) openAiWs.send({type:
\* "input_audio_buffer.append", audio: data.media.payload})
AppendMsgs(state, payload) ==
  IF state = "OPEN"
    THEN <<Msg("SS", "input_audio_buffer.append", payload, 0)>>
    ELSE <<>>

\* connection.on("message"), case "media".
Media(ts, payload) ==
  /\ connOpen
  /\ latestMediaTimestamp' = ts
  /\ out' = AppendMsgs(wsState, payload)
  /\ hist' = Observe(hist, out')
  /\ UNCHANGED <<variant, peer, streamSid, lastAssistantItem, markQueue,
                 responseStartTimestampTwilio, aiResponseInProgress,
                 pendingAudioChunks, hasFlushedInitialAudio, callReady,
                 openAiSessionReady, greetingSent, lastCommittedItemId,
                 pendingResponseForItemId, sockets, timers>>

\* connection.on("message"), case "start".  Every variant sets streamSid and
\* resets the anchor and the clock; what else is reset differs.
Start(sid) ==
  /\ connOpen
  /\ greetingTimers < MaxTimers
  /\ streamSid' = sid
  /\ responseStartTimestampTwilio' = NoAnchor
  /\ latestMediaTimestamp' = 0
  /\ aiResponseInProgress' = FALSE
  /\ markQueue' = IF variant = "manual" THEN markQueue ELSE <<>>
  /\ lastAssistantItem' = IF variant = "manual" THEN lastAssistantItem ELSE NULL
  /\ pendingAudioChunks' = IF variant = "auto" THEN <<>> ELSE pendingAudioChunks
  /\ hasFlushedInitialAudio' =
       IF variant = "auto" THEN FALSE ELSE hasFlushedInitialAudio
  /\ callReady' = IF variant = "auto" THEN TRUE ELSE callReady
  /\ lastCommittedItemId' = IF variant = "manual" THEN NULL ELSE lastCommittedItemId
  /\ pendingResponseForItemId' =
       IF variant = "manual" THEN NULL ELSE pendingResponseForItemId
  \* auto: greetingSent = false; maybeSendGreeting()
  \* greet: hasSentInitialGreeting = false
  /\ greetingSent' =
       CASE variant = "auto" ->
              GreetingDue(FALSE, TRUE, openAiSessionReady, wsState)
         [] variant = "greet" -> FALSE
         [] OTHER -> greetingSent
  /\ greetingTimers' =
       IF variant = "auto" /\ GreetingDue(FALSE, TRUE, openAiSessionReady, wsState)
         THEN greetingTimers + 1 ELSE greetingTimers
  /\ out' = <<>>
  /\ hist' = EndWindow(hist)
  /\ UNCHANGED <<variant, peer, openAiSessionReady, sockets, settleTimers, commitTimers,
                 silenceTimers>>

\* A mark handler whose queue is one array shared by every connection.
MarkShared ==
  /\ connOpen
  /\ markQueue' = IF Len(markQueue) > 0 THEN Tail(markQueue) ELSE markQueue
  /\ peer' = [peer EXCEPT !.markQueue = IF Len(@) > 0 THEN Tail(@) ELSE @]
  /\ out' = <<>>
  /\ UNCHANGED <<variant, streamSid, latestMediaTimestamp, lastAssistantItem,
                 responseStartTimestampTwilio, aiResponseInProgress,
                 pendingAudioChunks, hasFlushedInitialAudio, callReady,
                 openAiSessionReady, greetingSent, lastCommittedItemId,
                 pendingResponseForItemId, sockets, timers, hist>>

\* connection.on("message"), case "mark".
Mark ==
  /\ connOpen
  /\ markQueue' = IF Len(markQueue) > 0 THEN Tail(markQueue) ELSE markQueue
  /\ out' = <<>>
  /\ UNCHANGED <<variant, peer, streamSid, latestMediaTimestamp, lastAssistantItem,
                 responseStartTimestampTwilio, aiResponseInProgress,
                 pendingAudioChunks, hasFlushedInitialAudio, callReady,
                 openAiSessionReady, greetingSent, lastCommittedItemId,
                 pendingResponseForItemId, sockets, timers, hist>>

\* connection.on("message"), case "stop" and the default case: logged.
Stop ==
  /\ connOpen
  /\ out' = <<>>
  /\ UNCHANGED <<variant, peer, session, sockets, timers, hist>>

\* connection.on("message") with a message JSON.parse rejects: the catch
\* block reports it.
McUnparsable ==
  /\ connOpen
  /\ out' = <<>>
  /\ UNCHANGED <<variant, peer, session, sockets, timers, hist>>

\* The far end's close frame arrives on the media connection: ws sets
\* readyState to CLOSING and answers it; no handler of the bridge is called,
\* and the close event follows when the far end has ended the stream.
ConnClosing ==
  /\ connState = "OPEN"
  /\ connState' = "CLOSING"
  /\ out' = <<>>
  /\ UNCHANGED <<variant, peer, session, wsState, timers, hist>>

\* connection.on("close"), after the close frame or when the connection
\* drops: openAiWs.close() only when it is OPEN; the automatic variant also
\* resets its handshake flags.
ConnClose ==
  /\ connState # "CLOSED"
  /\ connState' = "CLOSED"
  /\ wsState' = IF wsState = "OPEN" THEN "CLOSING" ELSE wsState
  /\ callReady' = IF variant = "auto" THEN FALSE ELSE callReady
  /\ openAiSessionReady' = IF variant = "auto" THEN FALSE ELSE openAiSessionReady
  /\ greetingSent' = IF variant = "auto" THEN FALSE ELSE greetingSent
  /\ aiResponseInProgress' = IF variant = "auto" THEN FALSE ELSE aiResponseInProgress
  /\ out' = <<>>
  /\ UNCHANGED <<variant, peer, streamSid, latestMediaTimestamp, lastAssistantItem,
                 markQueue, responseStartTimestampTwilio, pendingAudioChunks,
                 hasFlushedInitialAudio, lastCommittedItemId,
                 pendingResponseForItemId, timers, hist>>

\* ------------------------------------------- Speech Service socket events
\* Nothing gates the message handler on readyState: the socket delivers
\* messages while it is OPEN and while it is CLOSING, after close() was
\* called on it or after the service's close frame (messages still being
\* inflated are delivered behind the frame), until the close event.
\* "FAILED" is readyState CLOSING after an error event: nothing more is
\* received, the close event is still to come.
WsReceiving == wsState \in {"OPEN", "CLOSING"}

\* openAiWs.on("open"): setTimeout(initializeSession, 100).
WsOpen ==
  /\ wsState = "CONNECTING"
  /\ wsState' = "OPEN"
  /\ settleTimers' = settleTimers + 1
  /\ out' = <<>>
  /\ UNCHANGED <<variant, peer, session, connState, greetingTimers, commitTimers,
                 silenceTimers, hist>>

\* A settle timer that fires again and again.
InitializeSessionRepeating ==
  /\ settleTimers > 0
  /\ out' = SsSend(wsState, <<Msg("SS", "session.update", NULL, 0)>>)
  /\ hist' = Observe(hist, out')
  /\ UNCHANGED <<variant, peer, session, sockets, timers>>

\* The settle timer fires: initializeSession.
InitializeSession ==
  /\ settleTimers > 0
  /\ settleTimers' = settleTimers - 1
  /\ out' = SsSend(wsState, <<Msg("SS", "session.update", NULL, 0)>>)
  /\ hist' = Observe(hist, out')
  /\ UNCHANGED <<variant, peer, session, sockets, greetingTimers, commitTimers,
                 silenceTimers>>

\* openAiWs.on("error"): the connection attempt or the transport failed, or
\* the closing handshake did after close() was called (readyState CLOSING);
\* ws sets readyState to CLOSING before it emits the event, and nothing
\* more is received ("FAILED": CLOSING, with the close event still to come).
WsError ==
  /\ wsState \in {"CONNECTING", "OPEN", "CLOSING"}
  /\ wsState' = "FAILED"
  /\ aiResponseInProgress' = FALSE
  /\ out' = <<>>
  /\ UNCHANGED <<variant, peer, streamSid, latestMediaTimestamp, lastAssistantItem,
                 markQueue, responseStartTimestampTwilio, pendingAudioChunks,
                 hasFlushedInitialAudio, callReady, openAiSessionReady,
                 greetingSent, lastCommittedItemId, pendingResponseForItemId,
                 connState, timers, hist>>

\* The service's close frame arrives on the socket: ws sets readyState to
\* CLOSING; no handler of the bridge is called, close() has not been called
\* and the media connection is as it was.  Messages received before the
\* frame may still be delivered; the close event follows when the service
\* has ended the stream.
WsClosing ==
  /\ wsState = "OPEN"
  /\ wsState' = "CLOSING"
  /\ out' = <<>>
  /\ UNCHANGED <<variant, peer, session, connState, timers, hist>>

\* openAiWs.on("close").
WsClose ==
  /\ wsState \in {"OPEN", "CLOSING", "FAILED"}
  /\ wsState' = "CLOSED"
  /\ aiResponseInProgress' =
       IF variant = "manual" THEN aiResponseInProgress ELSE FALSE
  /\ out' = <<>>
  /\ UNCHANGED <<variant, peer, streamSid, latestMediaTimestamp, lastAssistantItem,
                 markQueue, responseStartTimestampTwilio, pendingAudioChunks,
                 hasFlushedInitialAudio, callReady, openAiSessionReady,
                 greetingSent, lastCommittedItemId, pendingResponseForItemId,
                 connState, timers, hist>>

\* openAiWs.on("message"), session.updated: the service's answer to a
\* session.update command.
\*   auto:  openAiSessionReady = true; maybeSendGreeting()
\*   greet: the greeting is sent at once, unless hasSentInitialGreeting
SessionUpdated ==
  /\ WsReceiving
  /\ hist.asked
  /\ openAiSessionReady' = IF variant = "auto" THEN TRUE ELSE openAiSessionReady
  /\ greetingSent' =
       CASE variant = "auto" ->
              greetingSent \/ GreetingDue(greetingSent, callReady, TRUE, wsState)
         [] variant = "greet" -> TRUE
         [] OTHER -> greetingSent
  /\ greetingTimers' =
       IF variant = "auto" /\ GreetingDue(greetingSent, callReady, TRUE, wsState)
         THEN greetingTimers + 1 ELSE greetingTimers
  /\ out' = IF variant = "greet" /\ ~greetingSent
              THEN SsSend(wsState, <<Msg("SS", "response.create", "greeting", 0)>>)
              ELSE <<>>
  /\ hist' = [Observe(hist, out') EXCEPT !.acked = (variant = "greet")]
  /\ UNCHANGED <<variant, peer, streamSid, latestMediaTimestamp, lastAssistantItem,
                 markQueue, responseStartTimestampTwilio, aiResponseInProgress,
                 pendingAudioChunks, hasFlushedInitialAudio, callReady,
                 lastCommittedItemId, pendingResponseForItemId, sockets,
                 settleTimers, commitTimers, silenceTimers>>

\* The greeting timer of maybeSendGreeting fires.
GreetingTimer ==
  /\ greetingTimers > 0
  /\ greetingTimers' = greetingTimers - 1
  /\ out' = SsSend(wsState, <<Msg("SS", "response.create", "greeting", 0)>>)
  /\ hist' = Observe(hist, out')
  /\ UNCHANGED <<variant, peer, session, sockets, settleTimers, commitTimers,
                 silenceTimers>>

\* A pacer that buffers the first response only.
FlushedKept(flushed) == flushed

\* response.created: hasFlushedInitialAudio = false.
FlushedAfterCreated(flushed) == FALSE

\* openAiWs.on("message"), response.created.  With create_response off
\* (manual) the service starts a response only when asked to.
ResponseCreated ==
  /\ WsReceiving
  /\ variant = "manual" => hist.awaiting
  /\ aiResponseInProgress' = TRUE
  /\ pendingAudioChunks' = IF variant = "auto" THEN <<>> ELSE pendingAudioChunks
  /\ hasFlushedInitialAudio' =
       IF variant = "auto" THEN FlushedAfterCreated(hasFlushedInitialAudio)
                           ELSE hasFlushedInitialAudio
  /\ out' = <<>>
  /\ hist' = [hist EXCEPT !.audio = FALSE,
                           !.wBusy = hist.wBusy \/ (hist.win # 0 /\ hist.wCreates = 0),
                           !.rx = 0, !.done = FALSE, !.flushed = FALSE]
  /\ UNCHANGED <<variant, peer, streamSid, latestMediaTimestamp, lastAssistantItem,
                 markQueue, responseStartTimestampTwilio, callReady,
                 openAiSessionReady, greetingSent, lastCommittedItemId,
                 pendingResponseForItemId, sockets, timers>>

\* A response.done handler that leaves a failed response in progress.
StuckWhenFailed(failed) == failed

\* response.done: aiResponseInProgress = false, whatever the status.
InProgressAfterDone(failed) == FALSE

\* response.done: console.error("Response failed details:", ...) when the
\* status is failed.
FailureLog(failed) ==
  IF failed THEN <<Msg("LOG", "response.failed", NULL, 0)>> ELSE <<>>

\* openAiWs.on("message"), response.done, with status failed or not (a
\* failed status is only logged).  auto: flushPendingAudio() first.
ResponseDone(failed) ==
  /\ WsReceiving
  /\ LET flush == variant = "auto" /\ FlushActs(streamSid, pendingAudioChunks)
     IN /\ out' = (IF flush
                     THEN McSend(connOpen,
                                 FrameMsgs(streamSid, FlushOrder(pendingAudioChunks)))
                     ELSE <<>>) \o FailureLog(failed)
        /\ markQueue' = IF flush
                          THEN markQueue \o FrameTokens(streamSid, pendingAudioChunks)
                          ELSE markQueue
        /\ pendingAudioChunks' =
             IF flush THEN BufferAfterFlush(pendingAudioChunks) ELSE pendingAudioChunks
        /\ hasFlushedInitialAudio' = IF flush THEN TRUE ELSE hasFlushedInitialAudio
  /\ aiResponseInProgress' = InProgressAfterDone(failed)
  /\ hist' = [EndWindow(hist) EXCEPT
                !.awaiting = FALSE, !.audio = FALSE,
                !.done = (variant = "auto"),
                !.flushed = hist.flushed \/ pendingAudioChunks' # pendingAudioChunks]
  /\ UNCHANGED <<variant, peer, streamSid, latestMediaTimestamp, lastAssistantItem,
                 responseStartTimestampTwilio, callReady, openAiSessionReady,
                 greetingSent, lastCommittedItemId, pendingResponseForItemId,
                 sockets, timers>>

\* A pacer that flushes one chunk late.
BufferOverfull(chunks) == Len(chunks) > INITIAL_CHUNKS_BEFORE_FLUSH

\* A pacer that flushes as soon as it holds a chunk.
BufferNonEmpty(chunks) == Len(chunks) >= 1

\* if (pendingAudioChunks.length >= INITIAL_CHUNKS_BEFORE_FLUSH)
BufferFull(chunks) == Len(chunks) >= INITIAL_CHUNKS_BEFORE_FLUSH

\* openAiWs.on("message"), response.audio.delta carrying audio (delta in the
\* automatic variant, audio in the other two) and item_id item (NULL: none).
\* The chunk is named by its arrival number.
\*   auto:          return unless streamSid; buffer the first chunks of a
\*                  response, flush at INITIAL_CHUNKS_BEFORE_FLUSH, stream after
\*   manual, greet: send the frame at once, with whatever streamSid is
AudioDelta(item) ==
  /\ WsReceiving
  /\ hist.deltas < (IF variant = "auto" THEN MaxDeltas ELSE MaxBargeDeltas)
  /\ LET chunk == hist.deltas + 1
         skip == variant = "auto" /\ streamSid = NULL
         buffer == variant = "auto" /\ ~hasFlushedInitialAudio
         buffered == pendingAudioChunks \o <<chunk>>
         flush == buffer /\ BufferFull(buffered)
                         /\ FlushActs(streamSid, buffered)
         frames == CASE skip -> <<>>
                     [] flush -> FlushOrder(buffered)
                     [] buffer -> <<>>
                     [] OTHER -> <<chunk>>
     IN /\ out' = McSend(connOpen, FrameMsgs(streamSid, frames))
        /\ markQueue' = markQueue \o FrameTokens(streamSid, frames)
        /\ pendingAudioChunks' =
             CASE skip -> pendingAudioChunks
               [] flush -> BufferAfterFlush(buffered)
               [] buffer -> buffered
               [] OTHER -> pendingAudioChunks
        /\ hasFlushedInitialAudio' = IF ~skip /\ flush THEN TRUE ELSE hasFlushedInitialAudio
        /\ responseStartTimestampTwilio' =
             IF ~skip /\ AnchorFalsy(responseStartTimestampTwilio)
               THEN latestMediaTimestamp ELSE responseStartTimestampTwilio
        /\ lastAssistantItem' =
             IF ~skip /\ item # NULL THEN item ELSE lastAssistantItem
  /\ hist' = [hist EXCEPT !.deltas = hist.deltas + 1,
                           !.audio = (variant # "auto"),
                           !.rx = IF variant = "auto" THEN hist.rx + 1 ELSE 0,
                           !.flushed = hist.flushed \/ (hasFlushedInitialAudio'
                                                        /\ ~hasFlushedInitialAudio)]
  /\ UNCHANGED <<variant, peer, streamSid, latestMediaTimestamp, aiResponseInProgress,
                 callReady, openAiSessionReady, greetingSent, lastCommittedItemId,
                 pendingResponseForItemId, sockets, timers>>

\* An interruption guard that does not look at the mark queue.
InterruptionOnAnchorAlone(queue, anchor) == anchor # NoAnchor

\* handleSpeechStartedEvent's guard (manual and greet variants): marks are
\* outstanding and the response's first audio has been anchored.
InterruptionActs(queue, anchor) == Len(queue) > 0 /\ anchor # NoAnchor

\* const elapsedTime = latestMediaTimestamp - responseStartTimestampTwilio
ElapsedTime(clock, anchor) == clock - anchor

\* An interruption that truncates whether or not an item is known.
TruncateAlways(item, elapsed) ==
  <<Msg("SS", "conversation.item.truncate", item, elapsed)>>

\* if (lastAssistantItem) openAiWs.send(truncateEvent): the truncate command
\* for the item, cut at elapsed, when an item is set.
TruncateMsgs(item, elapsed) ==
  IF item # NULL
    THEN <<Msg("SS", "conversation.item.truncate", item, elapsed)>>
    ELSE <<>>

\* openAiWs.on("message"), input_audio_buffer.speech_started.
\*   auto:          handleSpeechStartedEvent only logs
\*   manual, greet: truncate (when lastAssistantItem is set), clear, reset
SpeechStarted ==
  /\ WsReceiving
  /\ LET acts == variant # "auto"
                   /\ InterruptionActs(markQueue, responseStartTimestampTwilio)
         truncate ==
           TruncateMsgs(lastAssistantItem,
                        ElapsedTime(latestMediaTimestamp, responseStartTimestampTwilio))
     IN /\ out' = IF acts
                    THEN SsSend(wsState, truncate)
                           \o McSend(connOpen, <<Msg("MC", "clear", streamSid, 0)>>)
                    ELSE <<>>
        /\ markQueue' = IF acts THEN <<>> ELSE markQueue
        /\ lastAssistantItem' = IF acts THEN NULL ELSE lastAssistantItem
        /\ responseStartTimestampTwilio' =
             IF acts THEN NoAnchor ELSE responseStartTimestampTwilio
        /\ aiResponseInProgress' = IF acts THEN FALSE ELSE aiResponseInProgress
        /\ hist' = IF acts
                     THEN [EndWindow(hist) EXCEPT !.cut = (variant = "vad")]
                     ELSE hist
  /\ UNCHANGED <<variant, peer, streamSid, latestMediaTimestamp, pendingAudioChunks,
                 hasFlushedInitialAudio, callReady, openAiSessionReady,
                 greetingSent, lastCommittedItemId, pendingResponseForItemId,
                 sockets, timers>>

\* tryCreateResponse without its in-progress guard.
CreateWheneverCommitted(inProgress, committed) == committed # NULL

\* tryCreateResponse without its no-committed-audio guard.
CreateWheneverIdle(inProgress, committed) == ~inProgress

\* tryCreateResponse's two early returns.
CreateAllowed(inProgress, committed) == ~inProgress /\ committed # NULL

\* tryCreateResponse, as a step on (aiResponseInProgress, out, hist).
TryCreateResponse ==
  LET go == CreateAllowed(aiResponseInProgress, lastCommittedItemId)
  IN /\ aiResponseInProgress' = (aiResponseInProgress \/ go)
     /\ out' = IF go
                 THEN SsSend(wsState, <<Msg("SS", "response.create", "turn", 0)>>)
                 ELSE <<>>

\* openAiWs.on("message"), input_audio_buffer.committed for item.
\*   manual: remember the item and start the 250 ms fallback timer
Committed(item) ==
  /\ WsReceiving
  /\ commitTimers < MaxTimers
  /\ lastCommittedItemId' = IF variant = "manual" THEN item ELSE lastCommittedItemId
  /\ pendingResponseForItemId' =
       IF variant = "manual" THEN item ELSE pendingResponseForItemId
  /\ commitTimers' =
       IF variant = "manual" THEN commitTimers + 1 ELSE commitTimers
  /\ out' = <<>>
  \* timers of equal delay fire in the order they were set: while any is
  \* pending, the one of the latest commit is
  /\ hist' = CASE variant # "manual" -> hist
                [] hist.win = 1 /\ commitTimers > 0 -> [hist EXCEPT !.win = 2]
                [] hist.win >= 2 -> [hist EXCEPT !.win = 3]
                [] OTHER -> [hist EXCEPT !.win = 1, !.wCreates = 0,
                                         !.wBusy = aiResponseInProgress]
  /\ UNCHANGED <<variant, peer, streamSid, latestMediaTimestamp, lastAssistantItem,
                 markQueue, responseStartTimestampTwilio, aiResponseInProgress,
                 pendingAudioChunks, hasFlushedInitialAudio, callReady,
                 openAiSessionReady, greetingSent, sockets, settleTimers,
                 greetingTimers, silenceTimers>>

\* openAiWs.on("message"), input_audio_transcription.completed.
\*   manual: pendingResponseForItemId = null; tryCreateResponse
TranscriptionCompleted ==
  /\ WsReceiving
  /\ IF variant = "manual"
       THEN /\ pendingResponseForItemId' = NULL
            /\ TryCreateResponse
       ELSE /\ out' = <<>>
            /\ UNCHANGED <<pendingResponseForItemId, aiResponseInProgress>>
  /\ hist' = Observe(hist, out')
  /\ UNCHANGED <<variant, peer, streamSid, latestMediaTimestamp, lastAssistantItem,
                 lastCommittedItemId,
                 markQueue, responseStartTimestampTwilio, pendingAudioChunks,
                 hasFlushedInitialAudio, callReady, openAiSessionReady,
                 greetingSent, sockets, timers>>

\* A fallback that waits for the transcription after all.
FallbackNever(pending, committed) == FALSE

\* if (pendingResponseForItemId === lastCommittedItemId)
FallbackDue(pending, committed) == pending = committed

\* A commit-fallback timer fires: respond if no transcription took over.
CommitTimer ==
  /\ commitTimers > 0
  /\ commitTimers' = commitTimers - 1
  /\ IF FallbackDue(pendingResponseForItemId, lastCommittedItemId)
       THEN /\ TryCreateResponse
            /\ pendingResponseForItemId' = NULL
       ELSE /\ out' = <<>>
            /\ UNCHANGED <<aiResponseInProgress, pendingResponseForItemId>>
  /\ hist' = Observe(hist, out')
  /\ UNCHANGED <<variant, peer, streamSid, latestMediaTimestamp, lastAssistantItem,
                 lastCommittedItemId,
                 markQueue, responseStartTimestampTwilio, pendingAudioChunks,
                 hasFlushedInitialAudio, callReady, openAiSessionReady,
                 greetingSent, sockets, settleTimers, greetingTimers,
                 silenceTimers>>

\* An error handler that gives the response in progress up.
ErrorEventResolving ==
  /\ WsReceiving
  /\ out' = <<Msg("LOG", "error", NULL, 0)>>
  /\ aiResponseInProgress' = FALSE
  /\ UNCHANGED <<variant, peer, streamSid, latestMediaTimestamp, lastAssistantItem,
                 markQueue, responseStartTimestampTwilio, pendingAudioChunks,
                 hasFlushedInitialAudio, callReady, openAiSessionReady,
                 greetingSent, lastCommittedItemId, pendingResponseForItemId,
                 sockets, timers, hist>>

\* openAiWs.on("message"), error: console.error("OpenAI error:", ...).
ErrorEvent ==
  /\ WsReceiving
  /\ out' = <<Msg("LOG", "error", NULL, 0)>>
  /\ UNCHANGED <<variant, peer, session, sockets, timers, hist>>

\* openAiWs.on("message") with a message JSON.parse rejects: the catch block
\* reports it.
SsUnparsable ==
  /\ WsReceiving
  /\ out' = <<>>
  /\ UNCHANGED <<variant, peer, session, sockets, timers, hist>>

\* ------------------------------------ the debounce handler (part_002)
\* Its session is streamSid, latestMediaTimestamp, markQueue,
\* responseStartTimestampTwilio and silenceTimer; open, error, close, mark,
\* stop and the two catch blocks are as in the other handlers (WsOpen,
\* WsError, WsClose, Mark, Stop, McUnparsable, SsUnparsable).
\* What the handler has no variable for stays as it was.
DbUntouched ==
  <<variant, peer, lastAssistantItem, aiResponseInProgress, pendingAudioChunks,
    hasFlushedInitialAudio, callReady, openAiSessionReady, greetingSent,
    lastCommittedItemId, pendingResponseForItemId, greetingTimers,
    commitTimers>>

\* requestAssistantResponse: returns unless the socket is OPEN, else sends
\* response.create.
RequestAssistantResponse(state) ==
  IF state = "OPEN" THEN <<Msg("SS", "response.create", "turn", 0)>> ELSE <<>>

\* the run after a step of this handler that sent msgs
Requested(h, msgs) ==
  [h EXCEPT !.asked = h.asked \/ Count("session.update", msgs) > 0,
            !.awaiting = h.awaiting \/ Creates(msgs) > 0]

\* connection.socket.on("message"), case "media": the clock, the append
\* command, and the silence timer set anew (an earlier one is cleared).
DbMedia(ts, payload) ==
  /\ connOpen
  /\ latestMediaTimestamp' = ts
  /\ out' = AppendMsgs(wsState, payload)
  /\ silenceTimers' = 1
  /\ UNCHANGED <<DbUntouched, streamSid, markQueue,
                 responseStartTimestampTwilio, sockets, settleTimers, hist>>

\* case "start".
DbStart(sid) ==
  /\ connOpen
  /\ streamSid' = sid
  /\ latestMediaTimestamp' = 0
  /\ responseStartTimestampTwilio' = NoAnchor
  /\ out' = <<>>
  /\ UNCHANGED <<DbUntouched, markQueue, sockets, settleTimers, silenceTimers,
                 hist>>

\* connection.socket.on("close"): clearTimeout(silenceTimer); close the
\* socket if it is OPEN.
DbConnClose ==
  /\ connState # "CLOSED"
  /\ connState' = "CLOSED"
  /\ silenceTimers' = 0
  /\ wsState' = IF wsState = "OPEN" THEN "CLOSING" ELSE wsState
  /\ out' = <<>>
  /\ UNCHANGED <<DbUntouched, streamSid, latestMediaTimestamp, markQueue,
                 responseStartTimestampTwilio, settleTimers, hist>>

\* The settle timer fires: initializeSession sends session.update and has
\* the assistant greet first (requestAssistantResponse).
DbInitializeSession ==
  /\ settleTimers > 0
  /\ settleTimers' = settleTimers - 1
  /\ out' = SsSend(wsState, <<Msg("SS", "session.update", NULL, 0)>>)
               \o RequestAssistantResponse(wsState)
  /\ hist' = Requested(hist, out')
  /\ UNCHANGED <<DbUntouched, streamSid, latestMediaTimestamp, markQueue,
                 responseStartTimestampTwilio, sockets, silenceTimers>>

\* openAiWs.on("message"), response.output_audio.delta with a delta: anchor
\* the response if it is not (== null), send the frame and a mark event
\* with whatever streamSid is, push the token.
DbAudioDelta ==
  /\ WsReceiving
  /\ hist.deltas < MaxBargeDeltas
  /\ responseStartTimestampTwilio' =
       IF responseStartTimestampTwilio = NoAnchor
         THEN latestMediaTimestamp ELSE responseStartTimestampTwilio
  /\ out' = McSend(connOpen, <<Msg("MC", "media", streamSid, hist.deltas + 1),
                               Msg("MC", "mark", streamSid, 0)>>)
  /\ markQueue' = markQueue \o <<"responsePart">>
  /\ hist' = [hist EXCEPT !.deltas = hist.deltas + 1]
  /\ UNCHANGED <<DbUntouched, streamSid, latestMediaTimestamp, sockets,
                 settleTimers, silenceTimers>>

\* input_audio_buffer.speech_started: handleSpeechStartedEvent cancels the
\* response and clears the playback when marks are outstanding and the
\* anchor is set.
DbSpeechStarted ==
  /\ WsReceiving
  /\ LET acts == InterruptionActs(markQueue, responseStartTimestampTwilio)
     IN /\ out' = IF acts
                    THEN SsSend(wsState, <<Msg("SS", "response.cancel", NULL, 0)>>)
                           \o McSend(connOpen, <<Msg("MC", "clear", streamSid, 0)>>)
                    ELSE <<>>
        /\ markQueue' = IF acts THEN <<>> ELSE markQueue
        /\ responseStartTimestampTwilio' =
             IF acts THEN NoAnchor ELSE responseStartTimestampTwilio
  /\ UNCHANGED <<DbUntouched, streamSid, latestMediaTimestamp, sockets,
                 settleTimers, silenceTimers, hist>>

\* input_audio_buffer.speech_stopped: requestAssistantResponse.
SpeechStopped ==
  /\ WsReceiving
  /\ out' = RequestAssistantResponse(wsState)
  /\ hist' = Requested(hist, out')
  /\ UNCHANGED <<variant, peer, session, sockets, timers>>

\* The silence timer fires, 900 ms after the last media frame:
\* requestAssistantResponse.
SilenceTimer ==
  /\ silenceTimers > 0
  /\ silenceTimers' = 0
  /\ out' = RequestAssistantResponse(wsState)
  /\ hist' = Requested(hist, out')
  /\ UNCHANGED <<variant, peer, session, sockets, settleTimers, greetingTimers,
                 commitTimers>>

\* response.done: the handler has no branch for it; the response that was
\* requested is complete.
DbResponseDone ==
  /\ WsReceiving
  /\ hist.awaiting
  /\ out' = <<>>
  /\ hist' = [hist EXCEPT !.awaiting = FALSE]
  /\ UNCHANGED <<variant, peer, session, sockets, timers>>

\* ------------------------------------------ the vad handler (part_000)
\* Its session is streamSid, latestMediaTimestamp, lastAssistantItem,
\* markQueue and responseStartTimestampTwilio; the session is configured
\* with turn_detection server_vad (the service creates responses itself).
\* case "start": streamSid, the anchor and the clock.
VadStart(sid) ==
  /\ connOpen
  /\ streamSid' = sid
  /\ responseStartTimestampTwilio' = NoAnchor
  /\ latestMediaTimestamp' = 0
  /\ out' = <<>>
  /\ UNCHANGED <<variant, peer, lastAssistantItem, markQueue, aiResponseInProgress,
                 pendingAudioChunks, hasFlushedInitialAudio, callReady,
                 openAiSessionReady, greetingSent, lastCommittedItemId,
                 pendingResponseForItemId, sockets, timers, hist>>

\* input_audio_buffer.speech_stopped: openAiWs.send({type: "response.create"}).
VadSpeechStopped ==
  /\ WsReceiving
  /\ out' = SsSend(wsState, <<Msg("SS", "response.create", "turn", 0)>>)
  /\ hist' = Observe(hist, out')
  /\ UNCHANGED <<variant, peer, session, sockets, timers>>

\* response.created: the handler has no branch for it; the audio that
\* follows belongs to a new response.
VadResponseCreated ==
  /\ WsReceiving
  /\ out' = <<>>
  /\ hist' = [hist EXCEPT !.cut = FALSE]
  /\ UNCHANGED <<variant, peer, session, sockets, timers>>

\* ------------------------------------------------- two calls at a time
\* The server runs one call of the /media-stream handler per connection, on
\* one event loop: between two events of one connection, events of another
\* may be processed.  The model follows the handler of one connection at a
\* time, the other's variables being kept in peer; Switch turns to the
\* other connection.
Switch ==
  /\ peer' = [name |-> 3 - peer.name,
              streamSid |-> streamSid,
              latestMediaTimestamp |-> latestMediaTimestamp,
              lastAssistantItem |-> lastAssistantItem,
              markQueue |-> markQueue,
              responseStartTimestampTwilio |-> responseStartTimestampTwilio,
              aiResponseInProgress |-> aiResponseInProgress,
              pendingAudioChunks |-> pendingAudioChunks,
              hasFlushedInitialAudio |-> hasFlushedInitialAudio,
              callReady |-> callReady,
              openAiSessionReady |-> openAiSessionReady,
              greetingSent |-> greetingSent,
              lastCommittedItemId |-> lastCommittedItemId,
              pendingResponseForItemId |-> pendingResponseForItemId,
              wsState |-> wsState, connState |-> connState,
              settleTimers |-> settleTimers, greetingTimers |-> greetingTimers,
              commitTimers |-> commitTimers, silenceTimers |-> silenceTimers,
              out |-> out, hist |-> hist]
  /\ streamSid' = peer.streamSid
  /\ latestMediaTimestamp' = peer.latestMediaTimestamp
  /\ lastAssistantItem' = peer.lastAssistantItem
  /\ markQueue' = peer.markQueue
  /\ responseStartTimestampTwilio' = peer.responseStartTimestampTwilio
  /\ aiResponseInProgress' = peer.aiResponseInProgress
  /\ pendingAudioChunks' = peer.pendingAudioChunks
  /\ hasFlushedInitialAudio' = peer.hasFlushedInitialAudio
  /\ callReady' = peer.callReady
  /\ openAiSessionReady' = peer.openAiSessionReady
  /\ greetingSent' = peer.greetingSent
  /\ lastCommittedItemId' = peer.lastCommittedItemId
  /\ pendingResponseForItemId' = peer.pendingResponseForItemId
  /\ wsState' = peer.wsState
  /\ connState' = peer.connState
  /\ settleTimers' = peer.settleTimers
  /\ greetingTimers' = peer.greetingTimers
  /\ commitTimers' = peer.commitTimers
  /\ silenceTimers' = peer.silenceTimers
  /\ out' = peer.out
  /\ hist' = peer.hist
  /\ UNCHANGED variant

\* ------------------------------------------------------- specifications
\* What both sockets and the timers can do to a session, in every variant,
\* with start events drawing their stream id from sids, media events their
\* frame from frames and audio deltas their item_id from items.
Common(sids, frames, items) ==
  \/ SpeechStarted
  \/ WsOpen
  \/ InitializeSession
  \/ SessionUpdated
  \/ ResponseCreated
  \/ \E item \in items : AudioDelta(item)
  \/ \E failed \in BOOLEAN : ResponseDone(failed)
  \/ \E item \in CommitItemIds : Committed(item)
  \/ TranscriptionCompleted
  \/ ErrorEvent
  \/ SsUnparsable
  \/ WsError
  \/ WsClosing
  \/ WsClose
  \/ \E sid \in sids : Start(sid)
  \/ \E frame \in frames : Media(frame[1], frame[2])
  \/ Mark
  \/ Stop
  \/ McUnparsable
  \/ ConnClosing
  \/ ConnClose

\* The automatic handler treats every stream id alike; one is followed, and
\* the start event that carries none.  Its pacing is followed with one media
\* frame, and with deltas that name their item: the handler stores the
\* item_id and never reads it (its handleSpeechStartedEvent only logs).
NextAuto == Common({"MZ1", NULL}, {<<4200, "p">>}, {"X"}) \/ GreetingTimer

\* The manual handler treats every stream id alike; one is followed, with
\* one media frame and deltas with and without an item_id.
NextManual == Common({"MZ1"}, {<<4200, "p">>}, DeltaItemIds) \/ CommitTimer

\* The manual handler's clock: two media frames in either order, deltas
\* that name their item.
NextManualFrames == Common({"MZ1"}, MediaFrames, {"X"}) \/ CommitTimer

NextGreet == Common(StreamSids, MediaFrames, DeltaItemIds)

\* Every event and timer of the debounce handler.
NextDebounce ==
  \/ DbSpeechStarted
  \/ WsOpen
  \/ DbInitializeSession
  \/ DbAudioDelta
  \/ DbResponseDone
  \/ SpeechStopped
  \/ SilenceTimer
  \/ SsUnparsable
  \/ WsError
  \/ WsClosing
  \/ WsClose
  \/ \E sid \in StreamSids : DbStart(sid)
  \/ \E frame \in MediaFrames : DbMedia(frame[1], frame[2])
  \/ Mark
  \/ Stop
  \/ McUnparsable
  \/ ConnClosing
  \/ DbConnClose

\* Every event of the vad handler; committed and transcription events
\* reach no branch of it.
NextVad ==
  \/ SpeechStarted
  \/ WsOpen
  \/ InitializeSession
  \/ \E item \in DeltaItemIds : AudioDelta(item)
  \/ VadSpeechStopped
  \/ VadResponseCreated
  \/ \E item \in CommitItemIds : Committed(item)
  \/ TranscriptionCompleted
  \/ SsUnparsable
  \/ WsError
  \/ WsClosing
  \/ WsClose
  \/ \E sid \in StreamSids : VadStart(sid)
  \/ \E frame \in MediaFrames : Media(frame[1], frame[2])
  \/ Mark
  \/ Stop
  \/ McUnparsable
  \/ ConnClosing
  \/ ConnClose

\* Two calls of the automatic handler side by side, with the events by which
\* one could reach the other: media, start, mark, audio delta (the first of
\* a response, which the pacer holds back until response.done), speech
\* started, response.done and close.
NextPair ==
  \/ Switch
  \/ WsOpen
  \/ hist.deltas < MaxBargeDeltas /\ AudioDelta("X")
  \/ SpeechStarted
  \/ ResponseDone(FALSE)
  \/ Start(IF peer.name = 2 THEN "MZ1" ELSE "MZ2")
  \/ Media(4200, "p")
  \/ Mark
  \/ ConnClosing
  \/ ConnClose

\* src/index.js 477-822: automatic responses, greeting rendezvous, pacing.
SpecAuto == InitOf("auto") /\ [][NextAuto]_vars

\* src/index.js 893-1155: manual response requests, barge-in.
SpecManual == InitOf("manual") /\ [][NextManual]_vars

\* src/index.js 893-1155 with the media clock followed through two frames.
SpecManualFrames == InitOf("manual") /\ [][NextManualFrames]_vars

\* The manual handler with its timers running: a commit-fallback timer that
\* has been set does fire (setTimeout, never cancelled).  Every event that
\* writes a session field or a socket's state is followed, with one stream
\* id, one media frame, deltas that name their item and responses that
\* complete or fail (response.done clears aiResponseInProgress whatever
\* its status); the events that write nothing (error, stop, unparsable
\* messages) are left out.
NextManualFair ==
  \/ SpeechStarted
  \/ WsOpen
  \/ InitializeSession
  \/ SessionUpdated
  \/ ResponseCreated
  \/ AudioDelta("X")
  \/ \E failed \in BOOLEAN : ResponseDone(failed)
  \/ \E item \in CommitItemIds : Committed(item)
  \/ TranscriptionCompleted
  \/ WsError
  \/ WsClosing
  \/ WsClose
  \/ Start("MZ1")
  \/ Media(4200, "p")
  \/ Mark
  \/ ConnClosing
  \/ ConnClose
  \/ CommitTimer

SpecManualFair ==
  InitOf("manual") /\ [][NextManualFair]_vars /\ WF_vars(CommitTimer)

\* src/unnamed/part_001: greeting on session.updated, barge-in.
SpecGreet == InitOf("greet") /\ [][NextGreet]_vars

\* src/unnamed/part_002: responses requested at speech_stopped and by the
\* silence timer.
SpecDebounce == InitOf("debounce") /\ [][NextDebounce]_vars

\* src/unnamed/part_000 73-285: audio relayed at once, barge-in, a response
\* requested at speech_stopped.
SpecVad == InitOf("vad") /\ [][NextVad]_vars

\* src/index.js 477-822, two connections accepted.
SpecPair == InitOf("auto") /\ [][NextPair]_vars

\* --------------------------------------------------------------- messages
Truncates(msgs) ==
  {i \in 1..Len(msgs) : msgs[i].type = "conversation.item.truncate"}

\* -------------------------------------------------------------- properties
\* C1: the greeting response-create command is never sent twice in one
\* session: no step sends it when an earlier step already has.
C1_GreetingNeverTwice == [][Greetings(out') > 0 => ~hist.greeted]_vars

\* C2: the greeting response-create command is sent only once start has been
\* received (streamSid set) and session.updated has acknowledged the
\* configuration.
C2_GreetingAfterBoth ==
  [][Greetings(out') > 0 => (streamSid' # NULL /\ hist'.acked)]_vars

\* C4: in manual mode a response-create command is never sent while a
\* response requested earlier has not been completed by response.done.
C4_OneOutstanding == [][Creates(out') > 0 => ~hist.awaiting]_vars

\* C6: a speech-started event that arrives while the model is responding,
\* marks are outstanding, the anchor is set and the active item is X sends
\* truncate for X at cutoff clock - anchor, then clear, and leaves the mark
\* queue empty and the item and the anchor null.
C6_InterruptionEffect ==
  [][(SpeechStarted /\ aiResponseInProgress /\ markQueue # <<>>
        /\ responseStartTimestampTwilio # NoAnchor /\ lastAssistantItem = "X")
      => /\ out' = <<Msg("SS", "conversation.item.truncate", "X",
                         latestMediaTimestamp - responseStartTimestampTwilio),
                     Msg("MC", "clear", streamSid, 0)>>
         /\ markQueue' = <<>>
         /\ lastAssistantItem' = NULL
         /\ responseStartTimestampTwilio' = NoAnchor]_vars

\* C7: the cutoff (audio_end_ms) of every truncate command sent is >= 0.
C7_CutoffNonNegative == \A i \in Truncates(out) : out[i].n >= 0

\* C9: latestMediaTimestamp never decreases from one state to the next.
C9_ClockMonotonic == [][latestMediaTimestamp' >= latestMediaTimestamp]_vars

\* C10: once the media connection has closed, the Speech Service socket is
\* not open: it neither remains open nor becomes open.
C10_NoOpenSocketAfterClose == connClosed => wsState # "OPEN"


\* the chunks in a buffer, and the chunks msgs carry as media frames
Chunks(buffer) == {buffer[i] : i \in 1..Len(buffer)}

Framed(msgs) ==
  {msgs[i].n : i \in {j \in 1..Len(msgs) : msgs[j].type = "media"}}

\* C3 (as stated): when a second commit came before the first one's fallback
\* timer fired and both timers have fired, with no response.done,
\* interruption or start in between and the socket open, exactly one
\* response-create command has been sent since the first commit.
C3_ExactlyOneCreate ==
  (hist.win = 2 /\ commitTimers = 0 /\ wsState = "OPEN") => hist.wCreates = 1

\* C3 (amended): such a pair of commits produces at most one response-create
\* command; it produces exactly one when no response was in progress at the
\* first commit, no response.created arrived before a command was sent, and
\* the socket is still open when both timers have fired.
C3_AtMostOneCreate ==
  hist.win = 2 =>
    /\ hist.wCreates <= 1
    /\ (commitTimers = 0 /\ ~hist.wBusy /\ wsState = "OPEN") => hist.wCreates = 1

\* a pair of quick commits, both timers fired, one command sent
C3_Witness ==
  /\ variant = "manual"
  /\ hist.win = 2 /\ commitTimers = 0 /\ ~hist.wBusy /\ wsState = "OPEN"
  /\ hist.wCreates = 1 /\ aiResponseInProgress

\* C5: a speech-started event that arrives while markQueue is empty or the
\* anchor is null sends nothing (no truncate, no clear) and leaves every
\* session field unchanged.
C5_InterruptionNoOp ==
  [][(SpeechStarted /\ (markQueue = <<>> \/ responseStartTimestampTwilio = NoAnchor))
       => (out' = <<>> /\ UNCHANGED session)]_vars

\* speech-started can arrive, and leaves this state as it is: every mark
\* acknowledged, the anchor and the item of a response in progress still set
C5_Witness ==
  /\ variant = "manual"
  /\ markQueue = <<>> /\ responseStartTimestampTwilio # NoAnchor
  /\ lastAssistantItem = "X" /\ aiResponseInProgress
  /\ streamSid # NULL /\ connOpen /\ wsState = "OPEN" /\ out = <<>>
  /\ ENABLED SpeechStarted

\* C8 (as stated): no chunk accepted into the pacing buffer is dropped: a
\* chunk leaves the buffer only in a step that sends it as a media frame.
C8_NoChunkDropped ==
  [][\A c \in Chunks(pendingAudioChunks) :
       c \notin Chunks(pendingAudioChunks') => c \in Framed(out')]_vars

\* C8 (amended): response.done, with the media connection open, sends every
\* chunk still buffered as a media frame and empties the buffer; a chunk
\* leaves the buffer unsent only at response.created or start (or when the
\* media connection is closing or has closed).
C8_FlushedOrReset ==
  [][/\ ((\E failed \in BOOLEAN : ResponseDone(failed)) /\ connOpen)
         => /\ Chunks(pendingAudioChunks) \subseteq Framed(out')
            /\ pendingAudioChunks' = <<>>
     /\ \A c \in Chunks(pendingAudioChunks) :
          c \notin Chunks(pendingAudioChunks')
            => \/ c \in Framed(out')
               \/ ~connOpen
               \/ ResponseCreated
               \/ \E sid \in StartSids : Start(sid)]_vars

\* response.done has flushed a buffer of two to five chunks
C8_Witness ==
  /\ variant = "auto"
  /\ Cardinality(Framed(out)) \in 2..(INITIAL_CHUNKS_BEFORE_FLUSH - 1)
  /\ pendingAudioChunks = <<>> /\ hasFlushedInitialAudio
  /\ ~aiResponseInProgress

\* Teardown has begun: one of the two connections has closed (its close
\* event has been handled).
TornDown == connClosed \/ wsState = "CLOSED"

\* the messages among msgs that went out on a socket
OnSockets(msgs) == {i \in 1..Len(msgs) : msgs[i].to \in {"SS", "MC"}}

\* C11: when the Speech Service socket has failed or closed, the media
\* connection is closed too: it never stays open without its socket.
C11_MediaClosedWithSocket == wsState \in {"FAILED", "CLOSED"} => ~connOpen

\* C12: once teardown has begun, no step sends a message on either socket.
C12_SilentAfterTeardown == [][TornDown => OnSockets(out') = {}]_vars

\* C13: a timer callback (settle, greeting, commit fallback) that fires after
\* either connection closed sends nothing and changes no session field.
C13_TimersInertAfterTeardown ==
  [][((InitializeSession \/ GreetingTimer \/ CommitTimer) /\ TornDown)
       => (out' = <<>> /\ UNCHANGED session)]_vars

\* C14: the anchor is set exactly once per response: the first audio delta
\* of a response sets it to the clock's value at that moment, and no later
\* delta of the same response changes an anchor that is set (0 included).
C14_AnchorOncePerResponse ==
  [][(\E item \in DeltaItemIds : AudioDelta(item))
       => /\ ~hist.audio => responseStartTimestampTwilio' = latestMediaTimestamp
          /\ (hist.audio /\ responseStartTimestampTwilio # NoAnchor)
               => responseStartTimestampTwilio' = responseStartTimestampTwilio]_vars

\* C15: response.done always ends the response in progress, failed or not:
\* aiResponseInProgress becomes false, every other session field is as it
\* was (so the state is the same for both statuses), and tryCreateResponse
\* is allowed again for the committed item.
C15_DoneAlwaysCompletes ==
  [][\A failed \in BOOLEAN :
       ResponseDone(failed)
         => /\ ~aiResponseInProgress'
            /\ UNCHANGED <<streamSid, latestMediaTimestamp, lastAssistantItem,
                           markQueue, responseStartTimestampTwilio,
                           pendingAudioChunks, hasFlushedInitialAudio,
                           callReady, openAiSessionReady, greetingSent,
                           lastCommittedItemId, pendingResponseForItemId>>
            /\ lastCommittedItemId # NULL
                 => CreateAllowed(aiResponseInProgress', lastCommittedItemId')]_vars

\* a requested response is in progress, and a failed response.done takes
\* the session to a state where tryCreateResponse is allowed again
C15_Witness ==
  /\ variant = "manual"
  /\ aiResponseInProgress /\ hist.awaiting
  /\ lastCommittedItemId # NULL /\ wsState = "OPEN"
  /\ ENABLED (/\ ResponseDone(TRUE)
              /\ Count("response.failed", out') = 1
              /\ CreateAllowed(aiResponseInProgress', lastCommittedItemId'))

\* C16: an inbound event that cannot be parsed, or lacks a field the handler
\* expects (here: a start event whose start object carries no streamSid), is
\* discarded: neither connection closes, no session field changes, nothing
\* is sent.
C16_MalformedDiscarded ==
  [][(McUnparsable \/ SsUnparsable \/ Start(NULL))
       => (UNCHANGED <<session, sockets>> /\ OnSockets(out') = {})]_vars

\* C17 (as stated): once the socket has opened and the settle delay has
\* elapsed, a session.update command has been sent.
C17_UpdateSentAfterSettle ==
  (wsState \in {"OPEN", "CLOSING"} /\ settleTimers = 0) => hist.asked

\* C17 (amended): session.update is never sent a second time, and the settle
\* timer sends it (once) when it finds the socket open.
C17_OneSessionUpdate ==
  [][/\ Count("session.update", out') > 0
          => (~hist.asked /\ Count("session.update", out') = 1)
     /\ (InitializeSession /\ wsState = "OPEN")
          => Count("session.update", out') = 1]_vars

\* the settle timer has just sent session.update
C17_Witness ==
  /\ variant = "auto"
  /\ Count("session.update", out) = 1 /\ hist.asked
  /\ settleTimers = 0 /\ wsState = "OPEN"

\* C18: once streamSid is set, no step changes it.
C18_StreamSidSetOnce == [][streamSid # NULL => streamSid' = streamSid]_vars

\* the audio frames among msgs (media events to the Media Channel)
Frames(msgs) == Count("media", msgs)

\* C19: markQueue holds one token per audio frame sent and not yet
\* acknowledged: a step lengthens it by the number of frames it sends, a mark
\* event shortens it by one (when there is one to remove), and nothing else
\* changes its length.
C19_QueueCountsUnackedFrames ==
  [][Len(markQueue') =
       Len(markQueue) + Frames(out')
         - (IF Mark /\ Len(markQueue) > 0 THEN 1 ELSE 0)]_vars

\* C20: after response.done, and after response.created, lastAssistantItem
\* and the anchor are null.
C20_ClearedBetweenResponses ==
  [][((\E failed \in BOOLEAN : ResponseDone(failed)) \/ ResponseCreated)
       => (lastAssistantItem' = NULL
           /\ responseStartTimestampTwilio' = NoAnchor)]_vars

\* the clear commands among msgs
Clears(msgs) == {i \in 1..Len(msgs) : msgs[i].type = "clear"}

\* C21: a truncate or a clear command is sent only by a step that finds a
\* response in progress, marks outstanding and the anchor set.
C21_InterruptsOnlyResponding ==
  [][(Truncates(out') # {} \/ Clears(out') # {})
       => (aiResponseInProgress /\ markQueue # <<>>
           /\ responseStartTimestampTwilio # NoAnchor)]_vars

\* handleSpeechStartedEvent passes its guard in this state
Interrupting ==
  variant # "auto" /\ InterruptionActs(markQueue, responseStartTimestampTwilio)

\* C22 (as stated): an interruption sends truncate exactly when
\* lastAssistantItem is set and sends clear in both cases, once, after the
\* truncate command.
C22_TruncateIffItemThenClear ==
  [][(SpeechStarted /\ Interrupting)
       => /\ Truncates(out') # {} <=> lastAssistantItem # NULL
          /\ Cardinality(Clears(out')) = 1
          /\ \A t \in Truncates(out') : \A c \in Clears(out') : t < c]_vars

\* C22 (amended): an interruption sends truncate exactly when
\* lastAssistantItem is set and the Speech Service socket is OPEN, for that
\* item at cut point clock - anchor, and sends clear, once and after the
\* truncate command, exactly when the media connection is OPEN; a command
\* for a connection that is closing or closed is not sent, whatever happens
\* to the other one.
C22_TruncateIffItemThenClearWhileOpen ==
  [][(SpeechStarted /\ Interrupting)
       => /\ Truncates(out') # {}
               <=> (lastAssistantItem # NULL /\ wsState = "OPEN")
          /\ Cardinality(Clears(out')) = (IF connOpen THEN 1 ELSE 0)
          /\ \A t \in Truncates(out') : \A c \in Clears(out') : t < c
          /\ out' = (IF wsState = "OPEN"
                       THEN TruncateMsgs(lastAssistantItem,
                                         latestMediaTimestamp
                                           - responseStartTimestampTwilio)
                       ELSE <<>>)
                     \o (IF connOpen
                           THEN <<Msg("MC", "clear", streamSid, 0)>>
                           ELSE <<>>)]_vars

\* the service's close frame has arrived and the media connection is open;
\* marks are outstanding for the audio of item X: speech-started, still
\* delivered, sends clear alone and forgets the item
C22_Witness ==
  /\ variant = "manual" /\ connOpen /\ wsState = "CLOSING" /\ streamSid # NULL
  /\ markQueue # <<>> /\ responseStartTimestampTwilio # NoAnchor
  /\ lastAssistantItem = "X"
  /\ ENABLED (SpeechStarted /\ out' = <<Msg("MC", "clear", streamSid, 0)>>
                /\ markQueue' = <<>> /\ lastAssistantItem' = NULL)

\* an audio delta arrives at the automatic variant (the only step that
\* counts a delta)
AutoDelta == variant = "auto" /\ hist'.deltas = hist.deltas + 1

\* response.done arrives at the automatic variant
AutoDone == variant = "auto" /\ \E failed \in BOOLEAN : ResponseDone(failed)

\* C23, first half: no media frame is sent before N chunks of the response
\* have been received or its response.done has arrived.
WithheldUntilDue ==
  Frames(out') > 0 =>
    (hist'.rx >= INITIAL_CHUNKS_BEFORE_FLUSH \/ hist'.done)

\* C23 (as stated): no frame before the response's Nth chunk or its
\* response.done; the step that receives the Nth chunk, and the step that
\* receives response.done, sends every chunk buffered (with the arriving
\* one) back-to-back and leaves the buffer empty (the media connection
\* being open).
C23_WithheldThenFlushed ==
  [][/\ WithheldUntilDue
     /\ (AutoDelta /\ ~hasFlushedInitialAudio /\ connOpen
           /\ hist'.rx = INITIAL_CHUNKS_BEFORE_FLUSH)
          => /\ SentChunks(out') = pendingAudioChunks \o <<hist'.deltas>>
             /\ pendingAudioChunks' = <<>>
     /\ (AutoDone /\ connOpen)
          => /\ SentChunks(out') = pendingAudioChunks
             /\ pendingAudioChunks' = <<>>]_vars

\* C23 (amended): no frame before the response's Nth chunk or its
\* response.done.  The flush is due when the buffer, not the count of chunks
\* received, reaches N (chunks received while streamSid was unset were
\* never buffered, and start empties the buffer), or when response.done
\* arrives; it empties the buffer in one step and, when the media
\* connection is open, sends every buffered chunk back-to-back in order,
\* each followed by its mark; when the connection is closing or has closed
\* they are discarded.
C23_WithheldUntilBufferFull ==
  [][/\ WithheldUntilDue
     /\ (AutoDelta /\ ~hasFlushedInitialAudio /\ streamSid # NULL
           /\ Len(pendingAudioChunks) + 1 >= INITIAL_CHUNKS_BEFORE_FLUSH)
          => /\ pendingAudioChunks' = <<>> /\ hasFlushedInitialAudio'
             /\ connOpen
                  => out' = FrameMsgs(streamSid,
                                      pendingAudioChunks \o <<hist'.deltas>>)
             /\ ~connOpen => Frames(out') = 0
     /\ (AutoDelta /\ ~hasFlushedInitialAudio
           /\ (streamSid = NULL
                \/ Len(pendingAudioChunks) + 1 < INITIAL_CHUNKS_BEFORE_FLUSH))
          => Frames(out') = 0
     /\ AutoDone
          => /\ pendingAudioChunks' = <<>>
             /\ connOpen => SentChunks(out') = pendingAudioChunks
             /\ ~connOpen => Frames(out') = 0]_vars

\* response.done has just flushed, back-to-back, the three chunks of a
\* response that ended before the buffer filled
C23_Witness ==
  /\ variant = "auto" /\ connOpen /\ streamSid # NULL
  /\ hist.done /\ hist.rx = 3
  /\ Len(SentChunks(out)) = 3 /\ Len(out) = 6
  /\ pendingAudioChunks = <<>> /\ hasFlushedInitialAudio

\* C24 (as stated): once the initial flush of a response has happened, each
\* further audio delta of that response (before its response.done, the
\* media connection being open) is sent in the step that receives it, as
\* one media frame followed by one mark event, and appends one token to
\* markQueue.
C24_StreamedOneForOne ==
  [][(AutoDelta /\ hist.flushed /\ ~hist.done /\ connOpen)
       => /\ out' = <<Msg("MC", "media", streamSid, hist'.deltas),
                      Msg("MC", "mark", streamSid, 0)>>
          /\ markQueue' = markQueue \o <<"responsePart">>]_vars

\* C24 (amended): while hasFlushedInitialAudio is set, each audio delta
\* appends one token to markQueue and, when the media connection is open,
\* is sent in the step that receives it as one media frame followed by one
\* mark event (nothing is sent once the connection is closing or has
\* closed).  A start
\* event after the flush clears the flag: the chunks that follow are skipped
\* (no streamSid) or buffered again until the buffer is full.
C24_StreamedWhileFlagSet ==
  [][/\ (AutoDelta /\ hasFlushedInitialAudio)
          => /\ markQueue' = markQueue \o <<"responsePart">>
             /\ UNCHANGED pendingAudioChunks
             /\ connOpen
                  => out' = <<Msg("MC", "media", streamSid, hist'.deltas),
                              Msg("MC", "mark", streamSid, 0)>>
             /\ ~connOpen => out' = <<>>
     /\ (AutoDelta /\ hist.flushed /\ ~hasFlushedInitialAudio)
          => /\ streamSid = NULL => (out' = <<>> /\ UNCHANGED pendingAudioChunks)
             /\ (streamSid # NULL
                  /\ Len(pendingAudioChunks) + 1 < INITIAL_CHUNKS_BEFORE_FLUSH)
                  => /\ out' = <<>>
                     /\ pendingAudioChunks'
                          = pendingAudioChunks \o <<hist'.deltas>>]_vars

\* the buffer of a response in progress was flushed when it filled, and the
\* next audio delta goes out at once as a frame and a mark
C24_Witness ==
  /\ variant = "auto" /\ connOpen /\ wsState = "OPEN"
  /\ hasFlushedInitialAudio /\ hist.flushed /\ ~hist.done
  /\ hist.rx >= INITIAL_CHUNKS_BEFORE_FLUSH
  /\ ENABLED (/\ AudioDelta("X")
              /\ Len(out') = 2
              /\ out'[1].type = "media" /\ out'[2].type = "mark"
              /\ Len(markQueue') = Len(markQueue) + 1)

\* C25: the pacer starts afresh at every response: response.created leaves
\* the buffer empty and hasFlushedInitialAudio false, and an audio delta that
\* is one of the first N - 1 of its response (the second and later
\* responses included), received before that response's response.done,
\* sends no frame.
C25_BufferingEveryResponse ==
  [][/\ (variant = "auto" /\ ResponseCreated)
          => (pendingAudioChunks' = <<>> /\ ~hasFlushedInitialAudio')
     /\ (AutoDelta /\ ~hist.done /\ hist'.rx < INITIAL_CHUNKS_BEFORE_FLUSH)
          => Frames(out') = 0]_vars

\* an earlier response was flushed (its marks are outstanding); the first
\* chunk of the response created after it is held in the buffer
C25_Witness ==
  /\ variant = "auto" /\ connOpen /\ wsState = "OPEN" /\ streamSid # NULL
  /\ aiResponseInProgress /\ ~hist.done
  /\ markQueue # <<>>
  /\ hist.rx = 1 /\ hist.deltas >= 2
  /\ pendingAudioChunks = <<hist.deltas>> /\ ~hasFlushedInitialAudio
  /\ out = <<>>

\* the elements of a sequence of chunks (numbered in order of arrival) rise
Rising(chunks) ==
  \A i \in 1..Len(chunks) : \A j \in 1..Len(chunks) :
    i < j => chunks[i] < chunks[j]

\* the input-audio-append commands among msgs
Appends(msgs) ==
  {i \in 1..Len(msgs) : msgs[i].type = "input_audio_buffer.append"}

\* C26: media frames go out in the order their audio deltas arrived: the
\* frames of one step carry chunks in arrival order, and no chunk is sent
\* while one that arrived before it stays behind in the buffer (a chunk sent
\* later than a younger one would have to wait there), the buffer itself
\* being in arrival order.  Inbound audio is appended in the order received:
\* an append command is sent only by the step that receives a media frame,
\* one per frame, carrying that frame's payload.
C26_ArrivalOrderKept ==
  [][/\ Rising(SentChunks(out'))
     /\ Rising(pendingAudioChunks')
     /\ \A i \in 1..Len(SentChunks(out')) :
          \A b \in Chunks(pendingAudioChunks') : SentChunks(out')[i] < b
     /\ Appends(out') # {}
          => \E ts \in Timestamps : \E payload \in Payloads :
               /\ Media(ts, payload)
               /\ out' = <<Msg("SS", "input_audio_buffer.append", payload, 0)>>]_vars

\* a full buffer has just been flushed: six frames, oldest chunk first
C26_Witness ==
  /\ variant = "auto" /\ connOpen /\ streamSid # NULL
  /\ Len(SentChunks(out)) = INITIAL_CHUNKS_BEFORE_FLUSH
  /\ Rising(SentChunks(out))
  /\ SentChunks(out)[INITIAL_CHUNKS_BEFORE_FLUSH] = hist.deltas
  /\ pendingAudioChunks = <<>> /\ hasFlushedInitialAudio

\* C27: a media frame sets latestMediaTimestamp to its timestamp whatever
\* the socket's state; with the socket open exactly one append command
\* carrying its payload is sent, otherwise nothing is sent; nothing else
\* changes (no frame is kept for later), and no other step sends an append
\* command.
C27_MediaClockAndAppend ==
  [][/\ \A ts \in Timestamps : \A payload \in Payloads :
          Media(ts, payload)
            => /\ latestMediaTimestamp' = ts
               /\ wsState = "OPEN"
                    => out' = <<Msg("SS", "input_audio_buffer.append", payload, 0)>>
               /\ wsState # "OPEN" => out' = <<>>
               /\ UNCHANGED <<streamSid, lastAssistantItem, markQueue,
                              responseStartTimestampTwilio, aiResponseInProgress,
                              pendingAudioChunks, hasFlushedInitialAudio,
                              callReady, openAiSessionReady, greetingSent,
                              lastCommittedItemId, pendingResponseForItemId,
                              sockets, timers>>
     /\ Appends(out') # {}
          => (wsState = "OPEN"
              /\ \E ts \in Timestamps : \E payload \in Payloads :
                   Media(ts, payload))]_vars

\* the stream has started and a media frame has set the clock while the
\* socket was still connecting: nothing was sent for it
C27_Witness ==
  /\ variant = "manual" /\ connOpen /\ streamSid # NULL
  /\ wsState = "CONNECTING"
  /\ latestMediaTimestamp = 5000
  /\ out = <<>>

\* C28: an error event from the Speech Service changes no session field
\* (response in progress, anchor, item, mark queue, pacing buffer and the
\* rest), no socket and no timer, and sends no command.
C28_ErrorChangesNothing ==
  [][ErrorEvent
       => (UNCHANGED <<session, sockets, timers>> /\ OnSockets(out') = {})]_vars

\* an error event has just been reported while a requested response is in
\* flight: the response is still in progress, its audio still anchored
C28_Witness ==
  /\ variant = "manual" /\ wsState = "OPEN" /\ connOpen
  /\ Count("error", out) = 1
  /\ aiResponseInProgress /\ hist.awaiting
  /\ markQueue # <<>> /\ responseStartTimestampTwilio # NoAnchor

\* input_audio_buffer.committed has arrived with no response in progress:
\* its item is remembered, its fallback timer is pending, no transcription
\* has taken over, and both connections are up
CommitPending ==
  /\ variant = "manual" /\ ~TornDown
  /\ commitTimers > 0
  /\ lastCommittedItemId # NULL
  /\ pendingResponseForItemId = lastCommittedItemId
  /\ ~aiResponseInProgress

\* C29 (as stated): after input-committed arrived while no response was in
\* progress, a response-create command is eventually sent (unless the
\* session is torn down or the socket leaves the OPEN state first), whether
\* or not a transcription arrives.
C29_CommitLeadsToCreate ==
  CommitPending ~> (Creates(out) > 0 \/ TornDown \/ wsState # "OPEN")

\* C29 (amended): ... a response-create command is eventually sent, unless
\* the session is torn down, the socket leaves the OPEN state (the command
\* is then dropped), a start event forgets the committed item, or a
\* response is in progress; and while the socket is OPEN the only step that
\* puts a response in progress without sending the command is
\* response.created, for a request made earlier.
C29_CommitLeadsToCreateUnlessReset ==
  /\ CommitPending ~> (Creates(out) > 0 \/ TornDown \/ wsState # "OPEN"
                         \/ lastCommittedItemId = NULL \/ aiResponseInProgress)
  /\ [][(wsState = "OPEN" /\ ~aiResponseInProgress /\ aiResponseInProgress'
           /\ Creates(out') = 0) => ResponseCreated]_vars

\* a commit is pending with the socket open, and its fallback timer, firing
\* now, sends the response-create command
C29_Witness ==
  /\ CommitPending /\ wsState = "OPEN" /\ streamSid # NULL
  /\ ENABLED (/\ CommitTimer
              /\ out' = <<Msg("SS", "response.create", "turn", 0)>>
              /\ aiResponseInProgress' /\ pendingResponseForItemId' = NULL)

\* C30: a response-create command sent by a fallback timer (silence timer,
\* commit timer) or by the speech-stopped handler is sent only when no
\* response requested earlier is still outstanding.
C30_FallbackOnlyWhenIdle ==
  [][((SpeechStopped \/ SilenceTimer \/ CommitTimer) /\ Creates(out') > 0)
       => ~hist.awaiting]_vars

\* C31: with automatic responses configured the only response-create command
\* the bridge sends is the one greeting: every step that sends
\* response-create sends the greeting, and no greeting has been sent before;
\* committed, transcription, speech-stopped and speech-started events send
\* none.
C31_OnlyTheGreetingIsRequested ==
  [][Creates(out') > 0
       => (Greetings(out') = Creates(out') /\ ~hist.greeted)]_vars

\* C32: every media, mark and clear event sent to the Media Channel carries
\* a streamSid that is not null and is the one start delivered; so nothing
\* is sent to the Media Channel while streamSid is null.
C32_OutboundCarriesStreamSid ==
  \A i \in 1..Len(out) :
    out[i].to = "MC" => (out[i].id # NULL /\ out[i].id = streamSid)

\* C33: with two sessions running, an event processed for one of them
\* leaves every field of the other as it was (its variables, its sockets,
\* its timers) and puts nothing on the other's connections.
C33_OtherSessionUntouched ==
  [][peer'.name = peer.name => peer' = peer]_vars

\* both calls have a stream of their own; the other has marks outstanding,
\* and this one has just sent audio frames on its own stream
C33_Witness ==
  /\ streamSid # NULL /\ peer.streamSid # NULL /\ streamSid # peer.streamSid
  /\ peer.markQueue # <<>>
  /\ Len(SentChunks(out)) > 0
  /\ \A i \in 1..Len(out) : out[i].to = "MC" => out[i].id = streamSid

\* C34: session.update is the first command sent on the Speech Service
\* socket: an input-audio-append or response-create command is sent only
\* when session.update has been sent (by an earlier step, or earlier in the
\* same step).
C34_SessionUpdateFirst ==
  \A i \in 1..Len(out) :
    (out[i].to = "SS"
       /\ out[i].type \in {"input_audio_buffer.append", "response.create"})
      => (hist.asked
          /\ \A j \in 1..Len(out) : out[j].type = "session.update" => j < i)

\* C35: once an interruption has been processed, an audio delta that
\* arrives before the next response.created (audio of the interrupted
\* response) produces no media frame and does not set the anchor again.
C35_NoAudioAfterInterruption ==
  [][(hist.cut /\ hist'.deltas = hist.deltas + 1)
       => (SentChunks(out') = <<>>
           /\ responseStartTimestampTwilio' = responseStartTimestampTwilio)]_vars

\* C36: an audio delta is sent to the Media Channel at most once.  Chunks
\* are named by their arrival number, so: a step sends no chunk twice; a
\* chunk it sends is the one arriving in this step or one it takes out of
\* the pacing buffer (a flushed chunk is not there for a later flush or
\* response.done); a chunk enters the buffer only in the step in which it
\* arrives, unsent; and the step sends no more frames than the one arriving
\* chunk and the chunks it takes out of the buffer.
C36_SentAtMostOnce ==
  [][LET sent == SentChunks(out')
         arriving == IF hist'.deltas = hist.deltas + 1 THEN {hist'.deltas} ELSE {}
         taken == Chunks(pendingAudioChunks) \ Chunks(pendingAudioChunks')
         put == Chunks(pendingAudioChunks') \ Chunks(pendingAudioChunks)
     IN /\ Rising(sent)
        /\ Chunks(sent) \subseteq arriving \cup taken
        /\ put \subseteq arriving \ Chunks(sent)
        /\ Rising(pendingAudioChunks')
        /\ Len(sent) <= Cardinality(arriving) + Cardinality(taken)]_vars

\* a full buffer was flushed, and now response.done has flushed the one
\* buffered chunk of the next response: that chunk alone is sent, and the
\* marks of all seven frames are outstanding
C36_Witness ==
  /\ variant = "auto" /\ connOpen
  /\ hist.done /\ hist.rx = 1
  /\ Len(markQueue) > INITIAL_CHUNKS_BEFORE_FLUSH
  /\ SentChunks(out) = <<hist.deltas>>
  /\ pendingAudioChunks = <<>>

\* C37: in manual mode no response-create command is sent while no input
\* has been committed on the current stream: a step that sends one finds
\* lastCommittedItemId set, and a transcription-completed event or fallback
\* timer that finds it null (initially, or after start reset it) sends
\* nothing and leaves aiResponseInProgress as it was, false when no
\* response is in progress.
C37_NoCreateBeforeCommit ==
  [][/\ Creates(out') > 0 => lastCommittedItemId # NULL
     /\ ((TranscriptionCompleted \/ CommitTimer) /\ lastCommittedItemId = NULL)
          => (out' = <<>> /\ aiResponseInProgress' = aiResponseInProgress)]_vars

\* start has reset the committed item while a fallback timer was pending and
\* the socket is open: the timer, firing, sends nothing and
\* aiResponseInProgress stays false
C37_Witness ==
  /\ variant = "manual" /\ connOpen /\ wsState = "OPEN"
  /\ streamSid # NULL /\ lastCommittedItemId = NULL
  /\ commitTimers > 0 /\ ~aiResponseInProgress
  /\ ENABLED (CommitTimer /\ out' = <<>> /\ ~aiResponseInProgress')

\* C38 (as stated): between events the pacing buffer holds fewer than
\* INITIAL_CHUNKS_BEFORE_FLUSH chunks, it is empty whenever
\* hasFlushedInitialAudio is set, and it is empty whenever no response is in
\* progress.
C38_BufferSmallAndIdleEmpty ==
  /\ Len(pendingAudioChunks) < INITIAL_CHUNKS_BEFORE_FLUSH
  /\ hasFlushedInitialAudio => pendingAudioChunks = <<>>
  /\ ~aiResponseInProgress => pendingAudioChunks = <<>>

\* C38 (amended): after every step the pacing buffer holds fewer than
\* INITIAL_CHUNKS_BEFORE_FLUSH chunks and is empty if hasFlushedInitialAudio
\* is set; a step that ends the response in progress with both connections
\* as they were (response.done, start) leaves it empty.
C38_BufferSmallAndEmptiedAtEnd ==
  [][/\ Len(pendingAudioChunks') < INITIAL_CHUNKS_BEFORE_FLUSH
     /\ hasFlushedInitialAudio' => pendingAudioChunks' = <<>>
     /\ (aiResponseInProgress /\ ~aiResponseInProgress' /\ UNCHANGED sockets)
          => pendingAudioChunks' = <<>>]_vars

\* a response is in progress and the buffer holds one chunk less than a
\* flush takes
C38_Witness ==
  /\ variant = "auto" /\ connOpen /\ streamSid # NULL
  /\ aiResponseInProgress /\ ~hasFlushedInitialAudio
  /\ Len(pendingAudioChunks) = INITIAL_CHUNKS_BEFORE_FLUSH - 1

\* ------------------------------------------------------------------ types
TypeOK ==
  /\ variant \in Variants
  /\ streamSid \in StreamSids \cup {NULL}
  /\ latestMediaTimestamp \in Timestamps \cup {0}
  /\ lastAssistantItem \in DeltaItemIds
  /\ Len(markQueue) <= MaxDeltas
  /\ responseStartTimestampTwilio \in Timestamps \cup {0, NoAnchor}
  /\ aiResponseInProgress \in BOOLEAN
  /\ Len(pendingAudioChunks) <= MaxDeltas
  /\ wsState \in {"CONNECTING", "OPEN", "CLOSING", "FAILED", "CLOSED"}
  /\ connState \in {"OPEN", "CLOSING", "CLOSED"}
  /\ silenceTimers \in {0, 1}

====
